---- MODULE Spec2Model ----
(***************************************************************************)
(* MySQL-compatible AES (mysql_aes): key folding, PKCS#7 padding, ECB      *)
(* block encryption, hex text wrappers and the per-user key deriver.       *)
(* Bytes are the integers 0..255, byte slices and strings are sequences of *)
(* bytes, a call returns the pair [val, err] the Go function returns.      *)
(***************************************************************************)
EXTENDS Integers, Sequences, FiniteSets, TLC

\* ------------------------------------------------------------ constants

AESKeyLen == 128

BlockSize == 16

keyLen == AESKeyLen \div 8

\* ------------------------------------------------------------ bounds

\* longest plaintext / ciphertext view a caller passes
MaxLen == 33

\* number of distinct caller buffers (byte patterns)
NumBufs == 2

\* spare capacity of the "short spare" slice views
SmallSpare == 4

\* ------------------------------------------------------------ bytes

Min(a, b) == IF a < b THEN a ELSE b

RECURSIVE XorBits(_, _, _)
XorBits(a, b, n) ==
  IF n = 0 THEN 0
  ELSE (((a % 2) + (b % 2)) % 2) + 2 * XorBits(a \div 2, b \div 2, n - 1)

\* Go's ^ on two bytes
Xor(a, b) == XorBits(a, b, 8)

\* ------------------------------------------------------------ errors

NoErr == "nil"

ErrPlaintextEmpty == "plaintext cannot be empty"

ErrKeyEmpty == "key cannot be empty"

ErrCiphertextEmpty == "ciphertext cannot be empty"

ErrCiphertextLength == "ciphertext length must be multiple of block size"

ErrCipher == "failed to create cipher"

ErrDataEmpty == "data is empty"

ErrBadPadding == "invalid padding"

ErrHex == "invalid hex string"

\* not an error value: the run-time panic of a slice expression out of range
ErrPanic == "panic: runtime error: slice bounds out of range"

\* Decrypt wraps the error of pkcs7Unpad
WrapUnpad(e) == IF e = ErrDataEmpty THEN "failed to remove padding: data is empty"
                ELSE "failed to remove padding: invalid padding"

\* the error kinds of the interface, as sets of the errors the code builds
InvalidInput ==
  {ErrPlaintextEmpty, ErrKeyEmpty, ErrCiphertextEmpty, ErrCiphertextLength}

InvalidPadding == {WrapUnpad(ErrDataEmpty), WrapUnpad(ErrBadPadding)}

InvalidEncoding == {ErrHex}

Fail(e) == [val |-> <<>>, err |-> e]

Ok(v) == [val |-> v, err |-> NoErr]

\* ------------------------------------------------------------ aesKey

\* a plausible slip: one pass of the inner loop only, the bytes from index 32
\* on are dropped
RECURSIVE aesKeyLoop_OnePass(_, _, _, _)
aesKeyLoop_OnePass(k, key, j, i) ==
  IF i > Len(key) \/ j > keyLen THEN k
  ELSE aesKeyLoop_OnePass([k EXCEPT ![j] = Xor(@, key[i])], key, j + 1, i + 1)

\* the nested loop of aesKey: j runs 0..keyLen-1 (here 1..keyLen), i runs on
RECURSIVE aesKeyLoop(_, _, _, _)
aesKeyLoop(k, key, j, i) ==
  IF i > Len(key) THEN k
  ELSE IF j > keyLen THEN aesKeyLoop(k, key, 1, i)
  ELSE aesKeyLoop([k EXCEPT ![j] = Xor(@, key[i])], key, j + 1, i + 1)

\* a plausible slip: long keys are truncated, never folded
aesKey_Truncate(key) ==
  IF Len(key) = keyLen THEN key
  ELSE [j \in 1..keyLen |-> IF j <= Len(key) THEN key[j] ELSE 0]

aesKey(key) ==
  IF Len(key) = keyLen THEN key
  ELSE LET k == [j \in 1..keyLen |-> IF j <= Len(key) THEN key[j] ELSE 0]
       IN aesKeyLoop(k, key, 1, keyLen + 1)

\* ------------------------------------------------------------ crypto/aes
\* The block cipher is the standard library's; it is modelled as a keyed
\* permutation of 16-byte blocks (a byte substitution of the key-mixed,
\* rotated block) with its inverse.

\* aes.NewCipher rejects every key size but 16, 24 and 32
NewCipherFails(k) == Len(k) \notin {16, 24, 32}

SubByte(x) == (x * 7 + 99) % 256

InvSubByte(y) == ((y + 256 - 99) * 183) % 256

BlockEncrypt(k, b) ==
  [i \in 1..BlockSize |-> SubByte(Xor(b[(i % BlockSize) + 1], k[i]))]

BlockDecrypt(k, c) ==
  [j \in 1..BlockSize |->
     LET i == ((j + BlockSize - 2) % BlockSize) + 1
     IN Xor(InvSubByte(c[i]), k[i])]

\* ------------------------------------------------------------ PKCS#7

\* a plausible slip: no padding block for block-aligned data
pkcs7Pad_NoFullBlock(data, blockSize) ==
  LET padding == (blockSize - (Len(data) % blockSize)) % blockSize
  IN data \o [i \in 1..padding |-> padding]

pkcs7Pad(data, blockSize) ==
  LET padding == blockSize - (Len(data) % blockSize)
      padText == [i \in 1..padding |-> padding]
  IN data \o padText

\* a plausible slip: one byte too few is removed
pkcs7Unpad_OffByOne(data) ==
  IF Len(data) = 0 THEN Fail(ErrDataEmpty)
  ELSE LET padding == data[Len(data)]
       IN IF padding = 0 \/ padding > Len(data) THEN Fail(ErrBadPadding)
          ELSE Ok(SubSeq(data, 1, Len(data) - padding + 1))

\* a plausible slip: a trailer as long as the data is rejected (>= for >)
pkcs7Unpad_StrictLess(data) ==
  IF Len(data) = 0 THEN Fail(ErrDataEmpty)
  ELSE LET padding == data[Len(data)]
       IN IF padding = 0 \/ padding >= Len(data) THEN Fail(ErrBadPadding)
          ELSE IF \E i \in (Len(data) - padding + 1)..Len(data) : data[i] # padding
               THEN Fail(ErrBadPadding)
               ELSE Ok(SubSeq(data, 1, Len(data) - padding))

\* a plausible slip: only the last byte is looked at, the trailer is not verified
pkcs7Unpad_NoVerify(data) ==
  IF Len(data) = 0 THEN Fail(ErrDataEmpty)
  ELSE LET padding == data[Len(data)]
       IN IF padding = 0 \/ padding > Len(data) THEN Fail(ErrBadPadding)
          ELSE Ok(SubSeq(data, 1, Len(data) - padding))

pkcs7Unpad(data) ==
  IF Len(data) = 0 THEN Fail(ErrDataEmpty)
  ELSE LET padding == data[Len(data)]
       IN IF padding = 0 \/ padding > Len(data) THEN Fail(ErrBadPadding)
          ELSE IF \E i \in (Len(data) - padding + 1)..Len(data) : data[i] # padding
               THEN Fail(ErrBadPadding)
               ELSE Ok(SubSeq(data, 1, Len(data) - padding))

\* ------------------------------------------------------------ ECB loops

\* a plausible slip: each block is XOR-ed with the ciphertext block before it
RECURSIVE EncryptLoop_Chained(_, _, _, _)
EncryptLoop_Chained(k, src, i, dst) ==
  IF i > Len(src) THEN dst
  ELSE LET prev == IF Len(dst) = 0 THEN [j \in 1..BlockSize |-> 0]
                   ELSE SubSeq(dst, Len(dst) - BlockSize + 1, Len(dst))
           b == SubSeq(src, i, i + BlockSize - 1)
       IN EncryptLoop_Chained(k, src, i + BlockSize,
            dst \o BlockEncrypt(k, [j \in 1..BlockSize |-> Xor(b[j], prev[j])]))

\* for i := 0; i < len(src); i += BlockSize { block.Encrypt(dst[i:i+16], src[i:i+16]) }
RECURSIVE EncryptLoop(_, _, _, _)
EncryptLoop(k, src, i, dst) ==
  IF i > Len(src) THEN dst
  ELSE EncryptLoop(k, src, i + BlockSize,
                   dst \o BlockEncrypt(k, SubSeq(src, i, i + BlockSize - 1)))

\* for i := 0; i < len(src); i += BlockSize { block.Decrypt(dst[i:i+16], src[i:i+16]) }
RECURSIVE DecryptLoop(_, _, _, _)
DecryptLoop(k, src, i, dst) ==
  IF i > Len(src) THEN dst
  ELSE DecryptLoop(k, src, i + BlockSize,
                   dst \o BlockDecrypt(k, SubSeq(src, i, i + BlockSize - 1)))

\* ------------------------------------------------------------ Encrypt / Decrypt

\* buf := make([]byte, n); for i := 0; i < n; i += BlockSize { buf[i:i+BlockSize] }:
\* the slice expression of some iteration reaches past the n bytes of buf
SliceOutOfRange(n) ==
  \E i \in 0..(n - 1) : i % BlockSize = 0 /\ i + BlockSize > n

\* a plausible slip: the empty key is not rejected (it folds to 16 zero bytes)
Encrypt_NoKeyCheck(plaintext, key) ==
  IF Len(plaintext) = 0 THEN Fail(ErrPlaintextEmpty)
  ELSE Ok(EncryptLoop(aesKey(key), pkcs7Pad(plaintext, BlockSize), 1, <<>>))

Encrypt(plaintext, key) ==
  IF Len(plaintext) = 0 THEN Fail(ErrPlaintextEmpty)
  ELSE IF Len(key) = 0 THEN Fail(ErrKeyEmpty)
  ELSE LET processedKey == aesKey(key)
       IN IF NewCipherFails(processedKey) THEN Fail(ErrCipher)
          ELSE LET paddedText == pkcs7Pad(plaintext, BlockSize)
               IN IF SliceOutOfRange(Len(paddedText)) THEN Fail(ErrPanic)
                  ELSE Ok(EncryptLoop(processedKey, paddedText, 1, <<>>))

\* a plausible slip: the empty key is not rejected before the blocks are decrypted
Decrypt_NoKeyCheck(ciphertext, key) ==
  IF Len(ciphertext) = 0 THEN Fail(ErrCiphertextEmpty)
  ELSE IF Len(ciphertext) % BlockSize # 0 THEN Fail(ErrCiphertextLength)
  ELSE LET unpadded == pkcs7Unpad(DecryptLoop(aesKey(key), ciphertext, 1, <<>>))
       IN IF unpadded.err # NoErr THEN Fail(WrapUnpad(unpadded.err))
          ELSE Ok(unpadded.val)

\* a plausible slip: on a bad trailer the decrypted bytes are returned with the error
Decrypt_LeakOnBadPadding(ciphertext, key) ==
  IF Len(ciphertext) = 0 THEN Fail(ErrCiphertextEmpty)
  ELSE IF Len(key) = 0 THEN Fail(ErrKeyEmpty)
  ELSE IF Len(ciphertext) % BlockSize # 0 THEN Fail(ErrCiphertextLength)
  ELSE LET plaintext == DecryptLoop(aesKey(key), ciphertext, 1, <<>>)
           unpadded == pkcs7Unpad(plaintext)
       IN IF unpadded.err # NoErr
          THEN [val |-> plaintext, err |-> WrapUnpad(unpadded.err)]
          ELSE Ok(unpadded.val)

\* a plausible slip: the length of the ciphertext is not checked
Decrypt_NoLengthCheck(ciphertext, key) ==
  IF Len(ciphertext) = 0 THEN Fail(ErrCiphertextEmpty)
  ELSE IF Len(key) = 0 THEN Fail(ErrKeyEmpty)
  ELSE IF SliceOutOfRange(Len(ciphertext)) THEN Fail(ErrPanic)
  ELSE LET unpadded == pkcs7Unpad(DecryptLoop(aesKey(key), ciphertext, 1, <<>>))
       IN IF unpadded.err # NoErr THEN Fail(WrapUnpad(unpadded.err))
          ELSE Ok(unpadded.val)

Decrypt(ciphertext, key) ==
  IF Len(ciphertext) = 0 THEN Fail(ErrCiphertextEmpty)
  ELSE IF Len(key) = 0 THEN Fail(ErrKeyEmpty)
  ELSE IF Len(ciphertext) % BlockSize # 0 THEN Fail(ErrCiphertextLength)
  ELSE LET processedKey == aesKey(key)
       IN IF NewCipherFails(processedKey) THEN Fail(ErrCipher)
          ELSE IF SliceOutOfRange(Len(ciphertext)) THEN Fail(ErrPanic)
          ELSE LET plaintext == DecryptLoop(processedKey, ciphertext, 1, <<>>)
                   unpadded == pkcs7Unpad(plaintext)
               IN IF unpadded.err # NoErr THEN Fail(WrapUnpad(unpadded.err))
                  ELSE Ok(unpadded.val)

\* ------------------------------------------------------------ encoding/hex
\* Characters are their ASCII codes.

\* a plausible slip: the upper-case alphabet
HexChar_Upper(n) == IF n < 10 THEN 48 + n ELSE 55 + n

\* hextable = "0123456789abcdef"
HexChar(n) == IF n < 10 THEN 48 + n ELSE 87 + n

\* a plausible slip: upper-case digits are not accepted
fromHexChar_LowerOnly(c) ==
  IF c >= 48 /\ c <= 57 THEN c - 48
  ELSE IF c >= 97 /\ c <= 102 THEN c - 87
  ELSE 255

\* reverseHexTable: 0..15 for 0-9, a-f, A-F and 255 for every other byte
fromHexChar(c) ==
  IF c >= 48 /\ c <= 57 THEN c - 48
  ELSE IF c >= 97 /\ c <= 102 THEN c - 87
  ELSE IF c >= 65 /\ c <= 70 THEN c - 55
  ELSE 255

EncodeToString(src) ==
  [i \in 1..(2 * Len(src)) |->
     IF i % 2 = 1 THEN HexChar(src[(i + 1) \div 2] \div 16)
     ELSE HexChar(src[i \div 2] % 16)]

\* hex.DecodeString: an error for a byte outside the hex alphabet or an odd length
DecodeString(s) ==
  IF \E i \in 1..Len(s) : fromHexChar(s[i]) > 15 THEN Fail(ErrHex)
  ELSE IF Len(s) % 2 = 1 THEN Fail(ErrHex)
  ELSE Ok([i \in 1..(Len(s) \div 2) |->
             fromHexChar(s[2 * i - 1]) * 16 + fromHexChar(s[2 * i])])

\* ------------------------------------------------------------ text wrappers

EncryptString(plaintext, key) ==
  LET encrypted == Encrypt(plaintext, key)
  IN IF encrypted.err # NoErr THEN Fail(encrypted.err)
     ELSE Ok(EncodeToString(encrypted.val))

DecryptString(ciphertextHex, key) ==
  LET ciphertext == DecodeString(ciphertextHex)
  IN IF ciphertext.err # NoErr THEN Fail(ErrHex)
     ELSE LET decrypted == Decrypt(ciphertext.val, key)
          IN IF decrypted.err # NoErr THEN Fail(decrypted.err)
             ELSE Ok(decrypted.val)

\* ------------------------------------------------------------ UserKeyDeriver
\* A user id is [type, n, s]: an integer n of a Go integer type, or a string s.

RECURSIVE FormatUint(_)
FormatUint(n) ==
  IF n < 10 THEN <<48 + n>> ELSE FormatUint(n \div 10) \o <<48 + (n % 10)>>

\* a plausible slip: the sign of a negative id is dropped
FormatInt_NoSign(n) == IF n < 0 THEN FormatUint(0 - n) ELSE FormatUint(n)

\* strconv.Itoa / FormatInt: a leading '-' for a negative number
FormatInt(n) == IF n < 0 THEN <<45>> \o FormatUint(0 - n) ELSE FormatUint(n)

NewUserKeyDeriver(baseKey, masterSalt) ==
  [baseKey |-> baseKey, masterSalt |-> masterSalt]

DeriveUserKey(d, userID) ==
  LET userIDStr ==
        IF userID.type \in {"uint", "uint64"} THEN FormatUint(userID.n)
        ELSE IF userID.type \in {"int", "int64"} THEN FormatInt(userID.n)
        ELSE IF userID.type = "string" THEN userID.s
        ELSE FormatInt(userID.n)
  IN d.baseKey \o userIDStr \o <<58>> \o d.masterSalt

EncryptForUser(d, plaintext, userID) ==
  EncryptString(plaintext, DeriveUserKey(d, userID))

\* a plausible slip: the base key is used without the identity
DecryptForUser_BaseKeyOnly(d, ciphertextHex, userID) ==
  DecryptString(ciphertextHex, d.baseKey)

DecryptForUser(d, ciphertextHex, userID) ==
  DecryptString(ciphertextHex, DeriveUserKey(d, userID))

\* ------------------------------------------------------------ memory
\* A []byte argument is a view of n bytes with capacity c over the caller's
\* backing array buf (buf[:n:c]); the bytes n+1..c are the caller's too.

\* append(data, padText...): in place when the capacity suffices, else a copy
appendInPlace(buf, n, c, padText) ==
  IF c - n >= Len(padText)
  THEN [i \in 1..Len(buf) |->
          IF i > n /\ i <= n + Len(padText) THEN padText[i - n] ELSE buf[i]]
  ELSE buf

\* the caller's backing array after pkcs7Pad(buf[:n:c], blockSize)
pkcs7PadMem(buf, n, c, blockSize) ==
  LET padding == blockSize - (n % blockSize)
  IN appendInPlace(buf, n, c, [i \in 1..padding |-> padding])

\* the caller's backing array after Encrypt(buf[:n:c], key)
EncryptMem(buf, n, c, key) ==
  IF n = 0 \/ Len(key) = 0 \/ NewCipherFails(aesKey(key)) THEN buf
  ELSE pkcs7PadMem(buf, n, c, BlockSize)

\* the caller's backing array after Decrypt(buf[:n:c], key): the blocks are
\* decrypted into a fresh buffer, which pkcs7Unpad only reslices
DecryptMem(buf, n, c, key) == buf

\* ------------------------------------------------------------ inputs

BufCap == MaxLen + BlockSize

Pattern(s, i) ==
  IF s = 1 THEN (i * 37 + 11) % 256 ELSE ((i + s) % 4) * (s - 1)

Buf(s) == [i \in 1..BufCap |-> Pattern(s, i)]

\* 15 bytes "A" and then bytes of 17: a text that itself ends like a trailer
\* longer than a block
LongPadBuf == [i \in 1..BufCap |-> IF i < BlockSize THEN 65 ELSE BlockSize + 1]

Bufs == {Buf(s) : s \in 1..NumBufs} \cup {LongPadBuf}

View(buf, n) == SubSeq(buf, 1, n)

\* the capacities a caller's view of n bytes is given
Caps(n) == {n, Min(n + SmallSpare, BufCap), BufCap}

KeyLens == {0, 5, 16, 17, 32, 35}

KeyOf(l) == [i \in 1..l |-> (i * 29 + 3 * l) % 256]

Keys == {KeyOf(l) : l \in KeyLens}

\* the lengths of the strings handed to the text and the per-user operations
StrLens == {0, 1, 13, 16, 17}

\* hex texts a caller may hand to DecryptString: empty, well formed (lower and
\* upper case), odd length, a byte outside the alphabet, not a whole block
HexTexts ==
  { <<>>,
    <<97, 98, 99, 100>>,
    <<65, 66, 67, 68>>,
    <<97, 98, 99>>,
    <<105, 110, 118, 97, 108, 105, 100, 95, 104, 101, 120>>,
    <<48, 103>>,
    [i \in 1..32 |-> 48 + (i % 10)],
    [i \in 1..32 |-> IF i % 2 = 1 THEN 48 + (i % 10) ELSE 65 + (i % 6)] }

\* a hex text as a database client may hand it back: the letters in upper case
ToUpper(s) == [i \in 1..Len(s) |-> IF s[i] \in 97..122 THEN s[i] - 32 ELSE s[i]]

NoId == [type |-> "none", n |-> 0, s |-> <<>>]

IntId(t, n) == [type |-> t, n |-> n, s |-> <<>>]

StrId(s) == [type |-> "string", n |-> 0, s |-> s]

\* "x" ++ 15 * "a" ++ "y" and "y" ++ 15 * "a" ++ "x"
SwapIdA == [i \in 1..17 |-> IF i = 1 THEN 120 ELSE IF i = 17 THEN 121 ELSE 97]

SwapIdB == [i \in 1..17 |-> IF i = 1 THEN 121 ELSE IF i = 17 THEN 120 ELSE 97]

UserIDs ==
  { IntId("uint", 42), IntId("uint64", 12345), IntId("int", 42), IntId("int", -7),
    IntId("int64", 54321), IntId("int32", 7), StrId(<<52, 50>>),
    StrId(SwapIdA), StrId(SwapIdB) }

\* "BASE", "SALT", and the 32-byte base key of the tests' shape
BaseKeys == { <<>>, <<66, 65, 83, 69>>, [i \in 1..32 |-> 65 + (i % 26)] }

MasterSalts == { <<>>, <<83, 65, 76, 84>> }

Derivers == {NewUserKeyDeriver(b, m) : b \in BaseKeys, m \in MasterSalts}

NoOrigin == [op |-> "none", p |-> <<>>, key |-> <<>>, id |-> NoId]

\* ------------------------------------------------------------ state

VARIABLES
  op,      \* the last call
  arg,     \* its arguments: the backing array before the call, the view, the key
  mem,     \* the caller's backing array after the call
  ret,     \* what the call returned: [val, err]
  origin,  \* the call whose result ret.val is fed to the next call
  ukd,     \* the UserKeyDeriver
  shared,  \* concurrent calls: the backing array both plaintext views lie over
  shared0, \* concurrent calls: that array when the calls began
  pc,      \* concurrent calls: where each goroutine's Encrypt stands
  loc,     \* concurrent calls: each Encrypt's parameters and locals
  rd,      \* concurrent calls: the cells of shared each call has read
  wr,      \* concurrent calls: the cells of shared each call has written
  hist,    \* call sequences: the deriver as constructed and the first call made
  ecb      \* block modes: one CryptBlocks(dst, src) call, its memory and position

Args(buf, data, c, key, id) ==
  [buf |-> buf, data |-> data, cap |-> c, key |-> key, id |-> id]

svars == <<op, arg, mem, ret, origin>>

cvars == <<shared, shared0, pc, loc, rd, wr>>

vars == <<op, arg, mem, ret, origin, ukd, shared, shared0, pc, loc, rd, wr, hist, ecb>>

Goroutines == {1, 2}

Locals(n, c, key) ==
  [n |-> n, c |-> c, key |-> key, processedKey |-> <<>>, alias |-> FALSE,
   paddedText |-> <<>>, plen |-> 0, i |-> 1, ciphertext |-> <<>>, err |-> NoErr]

\* no goroutine is running
ConcIdle ==
  /\ shared = <<>>
  /\ shared0 = <<>>
  /\ pc = [g \in Goroutines |-> "idle"]
  /\ loc = [g \in Goroutines |-> Locals(0, 0, <<>>)]
  /\ rd = [g \in Goroutines |-> {}]
  /\ wr = [g \in Goroutines |-> {}]

\* no sequential call is pending
SeqIdle ==
  /\ op = "init"
  /\ arg = Args(<<>>, <<>>, 0, <<>>, NoId)
  /\ mem = <<>>
  /\ ret = Ok(<<>>)
  /\ origin = NoOrigin

\* no CryptBlocks call is running
EcbIdle ==
  ecb = [pc |-> "idle", mode |-> "none", key |-> <<>>, mem |-> <<>>, mem0 |-> <<>>,
         d0 |-> 0, dl |-> 0, s0 |-> 0, sl |-> 0,
         dst |-> [off |-> 0, len |-> 0], src |-> [off |-> 0, len |-> 0],
         panic |-> ""]

\* no call has been made since the deriver was constructed
HistIdle ==
  hist = [ukd0 |-> ukd, op |-> "none", arg |-> Args(<<>>, <<>>, 0, <<>>, NoId),
          ret |-> Ok(<<>>), buf |-> <<>>, calls |-> 0]

DefaultDeriver == NewUserKeyDeriver(<<66, 65, 83, 69>>, <<83, 65, 76, 84>>)

Init ==
  /\ SeqIdle
  /\ ukd = DefaultDeriver
  /\ ConcIdle
  /\ HistIdle
  /\ EcbIdle

\* m.Encrypt(buf[:n:c], key)
CallEncrypt ==
  /\ op = "init"
  /\ \E buf \in Bufs, n \in 0..MaxLen, key \in Keys :
    \E c \in Caps(n) :
      /\ op' = "Encrypt"
      /\ arg' = Args(buf, View(buf, n), c, key, NoId)
      /\ ret' = Encrypt(View(buf, n), key)
      /\ mem' = EncryptMem(buf, n, c, key)
      /\ origin' = IF ret'.err = NoErr
                   THEN [op |-> "Encrypt", p |-> View(buf, n), key |-> key, id |-> NoId]
                   ELSE NoOrigin
      /\ UNCHANGED <<ukd, hist, ecb, cvars>>

\* m.Decrypt(buf[:n:c], key) on bytes of the caller's own
CallDecrypt ==
  /\ op = "init"
  /\ \E buf \in Bufs, n \in 0..MaxLen, key \in Keys :
    /\ op' = "Decrypt"
    /\ arg' = Args(buf, View(buf, n), BufCap, key, NoId)
    /\ ret' = Decrypt(View(buf, n), key)
    /\ mem' = DecryptMem(buf, n, BufCap, key)
    /\ origin' = NoOrigin
    /\ UNCHANGED <<ukd, hist, ecb, cvars>>

\* enc, _ := m.Encrypt(p, k); m.Decrypt(enc[:n], key): the whole ciphertext,
\* the ciphertext less its last block, or less its last byte
CallDecryptResult ==
  /\ origin.op = "Encrypt"
  /\ \E key \in Keys, n \in {Len(ret.val), Len(ret.val) - BlockSize, Len(ret.val) - 1} :
       /\ op' = "Decrypt"
       /\ arg' = Args(ret.val, View(ret.val, n), Len(ret.val), key, NoId)
       /\ ret' = Decrypt(View(ret.val, n), key)
       /\ mem' = DecryptMem(ret.val, n, Len(ret.val), key)
       /\ origin' = IF n = Len(ret.val) THEN [origin EXCEPT !.op = "Decrypt"]
                    ELSE NoOrigin
       /\ UNCHANGED <<ukd, hist, ecb, cvars>>

\* m.EncryptString(s, key): []byte(s) is a fresh copy, no caller memory
CallEncryptString ==
  /\ op = "init"
  /\ \E buf \in Bufs, n \in StrLens, key \in Keys :
    /\ op' = "EncryptString"
    /\ arg' = Args(<<>>, View(buf, n), n, key, NoId)
    /\ ret' = EncryptString(View(buf, n), key)
    /\ mem' = <<>>
    /\ origin' = IF ret'.err = NoErr
                 THEN [op |-> "EncryptString", p |-> View(buf, n), key |-> key, id |-> NoId]
                 ELSE NoOrigin
    /\ UNCHANGED <<ukd, hist, ecb, cvars>>

\* m.DecryptString(h, key)
CallDecryptString ==
  /\ op = "init"
  /\ \E h \in HexTexts, key \in Keys :
    /\ op' = "DecryptString"
    /\ arg' = Args(<<>>, h, Len(h), key, NoId)
    /\ ret' = DecryptString(h, key)
    /\ mem' = <<>>
    /\ origin' = NoOrigin
    /\ UNCHANGED <<ukd, hist, ecb, cvars>>

\* h, _ := m.EncryptString(s, k); m.DecryptString(h, key), h as returned or
\* in upper case
CallDecryptStringResult ==
  /\ origin.op = "EncryptString"
  /\ \E key \in Keys, h \in {ret.val, ToUpper(ret.val)} :
       /\ op' = "DecryptString"
       /\ arg' = Args(<<>>, h, Len(h), key, NoId)
       /\ ret' = DecryptString(h, key)
       /\ mem' = <<>>
       /\ origin' = [origin EXCEPT !.op = "DecryptString"]
       /\ UNCHANGED <<ukd, hist, ecb, cvars>>

\* m.pkcs7Pad(buf[:n:c], BlockSize)
CallPkcs7Pad ==
  /\ op = "init"
  /\ \E buf \in Bufs, n \in 0..MaxLen :
    \E c \in Caps(n) :
      /\ op' = "pkcs7Pad"
      /\ arg' = Args(buf, View(buf, n), c, <<>>, NoId)
      /\ ret' = Ok(pkcs7Pad(View(buf, n), BlockSize))
      /\ mem' = pkcs7PadMem(buf, n, c, BlockSize)
      /\ origin' = [op |-> "pkcs7Pad", p |-> View(buf, n), key |-> <<>>, id |-> NoId]
      /\ UNCHANGED <<ukd, hist, ecb, cvars>>

\* m.pkcs7Unpad(buf[:n]) on bytes of the caller's own
CallPkcs7Unpad ==
  /\ op = "init"
  /\ \E buf \in Bufs, n \in 0..MaxLen :
    /\ op' = "pkcs7Unpad"
    /\ arg' = Args(buf, View(buf, n), BufCap, <<>>, NoId)
    /\ ret' = pkcs7Unpad(View(buf, n))
    /\ mem' = buf
    /\ origin' = NoOrigin
    /\ UNCHANGED <<ukd, hist, ecb, cvars>>

\* padded := m.pkcs7Pad(data, 16); m.pkcs7Unpad(padded)
CallPkcs7UnpadResult ==
  /\ origin.op = "pkcs7Pad"
  /\ op' = "pkcs7Unpad"
  /\ arg' = Args(ret.val, ret.val, Len(ret.val), <<>>, NoId)
  /\ ret' = pkcs7Unpad(ret.val)
  /\ mem' = ret.val
  /\ origin' = [origin EXCEPT !.op = "pkcs7Unpad"]
  /\ UNCHANGED <<ukd, hist, ecb, cvars>>

\* the caller drops the last result; the next call starts from nothing,
\* as no call leaves anything behind in the MySQLAES value (it has no fields)
Discard ==
  /\ op # "init"
  /\ op' = "init"
  /\ arg' = Args(<<>>, <<>>, 0, <<>>, NoId)
  /\ mem' = <<>>
  /\ ret' = Ok(<<>>)
  /\ origin' = NoOrigin
  /\ UNCHANGED <<ukd, hist, ecb, cvars>>

Next ==
  \/ Discard
  \/ CallEncrypt
  \/ CallDecrypt
  \/ CallDecryptResult
  \/ CallEncryptString
  \/ CallDecryptString
  \/ CallDecryptStringResult
  \/ CallPkcs7Pad
  \/ CallPkcs7Unpad
  \/ CallPkcs7UnpadResult

Spec == Init /\ [][Next]_vars

\* ------------------------------------------------------------ per-user calls

InitUser ==
  /\ SeqIdle
  /\ ukd \in Derivers
  /\ ConcIdle
  /\ HistIdle
  /\ EcbIdle

\* ukd.DeriveUserKey(userID)
CallDeriveUserKey ==
  /\ op = "init"
  /\ \E id \in UserIDs :
       /\ op' = "DeriveUserKey"
       /\ arg' = Args(<<>>, <<>>, 0, <<>>, id)
       /\ ret' = Ok(DeriveUserKey(ukd, id))
       /\ mem' = <<>>
       /\ origin' = NoOrigin
       /\ UNCHANGED <<ukd, hist, ecb, cvars>>

\* ukd.EncryptForUser(s, userID)
CallEncryptForUser ==
  /\ op = "init"
  /\ \E buf \in Bufs, n \in StrLens, id \in UserIDs :
       /\ op' = "EncryptForUser"
       /\ arg' = Args(<<>>, View(buf, n), n, <<>>, id)
       /\ ret' = EncryptForUser(ukd, View(buf, n), id)
       /\ mem' = <<>>
       /\ origin' = IF ret'.err = NoErr
                    THEN [op |-> "EncryptForUser", p |-> View(buf, n),
                          key |-> DeriveUserKey(ukd, id), id |-> id]
                    ELSE NoOrigin
       /\ UNCHANGED <<ukd, hist, ecb, cvars>>

\* ukd.DecryptForUser(h, userID)
CallDecryptForUser ==
  /\ op = "init"
  /\ \E h \in HexTexts, id \in UserIDs :
       /\ op' = "DecryptForUser"
       /\ arg' = Args(<<>>, h, Len(h), <<>>, id)
       /\ ret' = DecryptForUser(ukd, h, id)
       /\ mem' = <<>>
       /\ origin' = NoOrigin
       /\ UNCHANGED <<ukd, hist, ecb, cvars>>

\* h, _ := ukd.EncryptForUser(s, a); ukd.DecryptForUser(h, b)
CallDecryptForUserResult ==
  /\ origin.op = "EncryptForUser"
  /\ \E id \in UserIDs :
       /\ op' = "DecryptForUser"
       /\ arg' = Args(<<>>, ret.val, Len(ret.val), <<>>, id)
       /\ ret' = DecryptForUser(ukd, ret.val, id)
       /\ mem' = <<>>
       /\ origin' = [origin EXCEPT !.op = "DecryptForUser"]
       /\ UNCHANGED <<ukd, hist, ecb, cvars>>

NextUser ==
  \/ Discard
  \/ CallDeriveUserKey
  \/ CallEncryptForUser
  \/ CallDecryptForUser
  \/ CallDecryptForUserResult

SpecUser == InitUser /\ [][NextUser]_vars

\* ------------------------------------------------------------ concurrent calls
\* Two goroutines each run m.Encrypt(buf[:n:c], key) on views of one caller
\* buffer. A step is one statement of Encrypt: the checks and the key, the
\* append of pkcs7Pad, one block of the loop, the return.

ConcLens == {0, 1, 17}

ConcKeys == {KeyOf(0), KeyOf(5), KeyOf(35)}

InitConc ==
  /\ SeqIdle
  /\ ukd = DefaultDeriver
  /\ shared \in Bufs
  /\ shared0 = shared
  /\ pc = [g \in Goroutines |-> "start"]
  /\ \E n1 \in ConcLens, n2 \in ConcLens, k1 \in ConcKeys, k2 \in ConcKeys :
       \E c1 \in {n1, BufCap}, c2 \in {n2, BufCap} :
         loc = [g \in Goroutines |->
                  IF g = 1 THEN Locals(n1, c1, k1) ELSE Locals(n2, c2, k2)]
  /\ rd = [g \in Goroutines |-> {}]
  /\ wr = [g \in Goroutines |-> {}]
  /\ HistIdle
  /\ EcbIdle

\* lines 53-64: the checks, aesKey, aes.NewCipher
GoStart(g) ==
  /\ pc[g] = "start"
  /\ LET l == loc[g]
         e == IF l.n = 0 THEN ErrPlaintextEmpty
              ELSE IF Len(l.key) = 0 THEN ErrKeyEmpty
              ELSE IF NewCipherFails(aesKey(l.key)) THEN ErrCipher
              ELSE NoErr
     IN /\ loc' = [loc EXCEPT ![g] = [l EXCEPT !.err = e,
                                               !.processedKey = aesKey(l.key)]]
        /\ pc' = [pc EXCEPT ![g] = IF e = NoErr THEN "pad" ELSE "done"]
  /\ UNCHANGED <<svars, ukd, hist, ecb, shared, shared0, rd, wr>>

\* line 67, pkcs7Pad: append writes the pad bytes into the caller's array when
\* the view's capacity holds them, and else copies the view into a new array
GoPad(g) ==
  /\ pc[g] = "pad"
  /\ LET l == loc[g]
         padding == BlockSize - (l.n % BlockSize)
         padText == [i \in 1..padding |-> padding]
         inPlace == l.c - l.n >= padding
     IN /\ shared' = appendInPlace(shared, l.n, l.c, padText)
        /\ wr' = [wr EXCEPT ![g] =
                    IF inPlace THEN @ \cup ((l.n + 1)..(l.n + padding)) ELSE @]
        /\ rd' = [rd EXCEPT ![g] = IF inPlace THEN @ ELSE @ \cup (1..l.n)]
        /\ loc' = [loc EXCEPT ![g] =
                     [l EXCEPT !.alias = inPlace,
                               !.paddedText =
                                  IF inPlace THEN <<>> ELSE View(shared, l.n) \o padText,
                               !.plen = l.n + padding]]
        /\ pc' = [pc EXCEPT ![g] = "blocks"]
  /\ UNCHANGED <<svars, ukd, hist, ecb, shared0>>

\* lines 71-73: one block of the loop; paddedText is the caller's array when
\* append wrote in place
GoBlock(g) ==
  /\ pc[g] = "blocks"
  /\ loc[g].i <= loc[g].plen
  /\ LET l == loc[g]
         src == IF l.alias THEN SubSeq(shared, l.i, l.i + BlockSize - 1)
                ELSE SubSeq(l.paddedText, l.i, l.i + BlockSize - 1)
     IN /\ loc' = [loc EXCEPT ![g] =
                     [l EXCEPT !.ciphertext = @ \o BlockEncrypt(l.processedKey, src),
                               !.i = @ + BlockSize]]
        /\ rd' = [rd EXCEPT ![g] =
                    IF l.alias THEN @ \cup (l.i..(l.i + BlockSize - 1)) ELSE @]
  /\ UNCHANGED <<svars, ukd, hist, ecb, shared, shared0, pc, wr>>

\* line 75: return ciphertext, nil
GoReturn(g) ==
  /\ pc[g] = "blocks"
  /\ loc[g].i > loc[g].plen
  /\ pc' = [pc EXCEPT ![g] = "done"]
  /\ UNCHANGED <<svars, ukd, hist, ecb, shared, shared0, loc, rd, wr>>

NextConc ==
  \E g \in Goroutines : GoStart(g) \/ GoPad(g) \/ GoBlock(g) \/ GoReturn(g)

SpecConc == InitConc /\ [][NextConc]_vars

\* ------------------------------------------------------------ call sequences
\* Any sequence of calls on one MySQLAES value and one UserKeyDeriver. hist
\* keeps the deriver as NewUserKeyDeriver returned it and the first call made
\* since, with what it returned and the caller's buffer after it; calls counts
\* the calls made, up to MaxCalls.

MaxCalls == 2

HistLens == {0, 1, 16}

HistKeys == {KeyOf(0), KeyOf(5), KeyOf(17)}

HistIDs == {IntId("uint", 42), IntId("int", -7), StrId(<<52, 50>>)}

HistDerivers == {DefaultDeriver, NewUserKeyDeriver(<<>>, <<>>)}

HistPlain == {View(Buf(1), n) : n \in HistLens}

\* "abc" (odd length) and "0g" (not a hex digit)
HistBadHex == {<<97, 98, 99>>, <<48, 103>>}

\* ciphertexts of the inputs, 5 bytes, and 16 bytes that no Encrypt produced
HistCiphertexts ==
  {Encrypt(p, k).val : p \in HistPlain, k \in HistKeys}
    \cup {View(Buf(1), 5), View(Buf(1), BlockSize)}

HistHex ==
  {EncryptString(p, k).val : p \in HistPlain, k \in HistKeys} \cup HistBadHex

HistUserHex(d) ==
  {EncryptForUser(d, p, id).val : p \in HistPlain, id \in HistIDs} \cup HistBadHex

InitHist ==
  /\ SeqIdle
  /\ ukd \in HistDerivers
  /\ ConcIdle
  /\ HistIdle
  /\ EcbIdle

\* one call o with arguments a that returns r and leaves the caller's buffer m
HistCall(o, a, r, m) ==
  /\ op = "init"
  /\ op' = o
  /\ arg' = a
  /\ ret' = r
  /\ mem' = m
  /\ origin' = NoOrigin
  /\ hist' = IF hist.calls = 0
             THEN [hist EXCEPT !.op = o, !.arg = a, !.ret = r, !.buf = m, !.calls = 1]
             ELSE [hist EXCEPT !.calls = Min(@ + 1, MaxCalls)]

\* m.Encrypt(buf[:n:c], key), on a fresh buffer or on the buffer the first
\* call left behind
HistEncrypt ==
  \E buf \in {Buf(1), hist.buf}, n \in HistLens, key \in HistKeys :
    \E c \in {n, BufCap} :
      /\ Len(buf) = BufCap
      /\ HistCall("Encrypt", Args(buf, View(buf, n), c, key, NoId),
                  Encrypt(View(buf, n), key), EncryptMem(buf, n, c, key))
      /\ UNCHANGED <<ukd, ecb, cvars>>

\* m.Decrypt(data, key)
HistDecrypt ==
  \E data \in HistCiphertexts, key \in HistKeys :
    /\ HistCall("Decrypt", Args(data, data, Len(data), key, NoId),
                Decrypt(data, key), DecryptMem(data, Len(data), Len(data), key))
    /\ UNCHANGED <<ukd, ecb, cvars>>

\* m.EncryptString(s, key)
HistEncryptString ==
  \E s \in HistPlain, key \in HistKeys :
    /\ HistCall("EncryptString", Args(<<>>, s, Len(s), key, NoId),
                EncryptString(s, key), <<>>)
    /\ UNCHANGED <<ukd, ecb, cvars>>

\* m.DecryptString(h, key)
HistDecryptString ==
  \E h \in HistHex, key \in HistKeys :
    /\ HistCall("DecryptString", Args(<<>>, h, Len(h), key, NoId),
                DecryptString(h, key), <<>>)
    /\ UNCHANGED <<ukd, ecb, cvars>>

\* a plausible slip: the deriver keeps the derived key as its base key
HistDeriveUserKey_KeepsKey ==
  \E id \in HistIDs :
    /\ HistCall("DeriveUserKey", Args(<<>>, <<>>, 0, <<>>, id),
                Ok(DeriveUserKey(ukd, id)), <<>>)
    /\ ukd' = [ukd EXCEPT !.baseKey = DeriveUserKey(ukd, id)]
    /\ UNCHANGED <<ecb, cvars>>

\* ukd.DeriveUserKey(userID)
HistDeriveUserKey ==
  \E id \in HistIDs :
    /\ HistCall("DeriveUserKey", Args(<<>>, <<>>, 0, <<>>, id),
                Ok(DeriveUserKey(ukd, id)), <<>>)
    /\ UNCHANGED <<ukd, ecb, cvars>>

\* ukd.EncryptForUser(s, userID)
HistEncryptForUser ==
  \E s \in HistPlain, id \in HistIDs :
    /\ HistCall("EncryptForUser", Args(<<>>, s, Len(s), <<>>, id),
                EncryptForUser(ukd, s, id), <<>>)
    /\ UNCHANGED <<ukd, ecb, cvars>>

\* ukd.DecryptForUser(h, userID)
HistDecryptForUser ==
  \E h \in HistUserHex(ukd), id \in HistIDs :
    /\ HistCall("DecryptForUser", Args(<<>>, h, Len(h), <<>>, id),
                DecryptForUser(ukd, h, id), <<>>)
    /\ UNCHANGED <<ukd, ecb, cvars>>

NextHist ==
  \/ Discard
  \/ HistEncrypt
  \/ HistDecrypt
  \/ HistEncryptString
  \/ HistDecryptString
  \/ HistDeriveUserKey
  \/ HistEncryptForUser
  \/ HistDecryptForUser

SpecHist == InitHist /\ [][NextHist]_vars

\* ------------------------------------------------------------ block modes
\* NewECBEncrypter(b).CryptBlocks(dst, src) and NewECBDecrypter(b).CryptBlocks(dst, src)
\* with b := aes.NewCipher(key). dst and src are views of one caller memory:
\* dst = mem[d0 : d0+dl], src = mem[s0 : s0+sl], apart, one over the other, or
\* shifted against each other. A step is the two checks, one iteration of the
\* loop, or the return; ecb.dst and ecb.src are the loop's resliced dst and src.

MaxBlocks == 2

EcbCap == 2 * MaxBlocks * BlockSize + 1

EcbMems == {[i \in 1..EcbCap |-> Pattern(s, i)] : s \in 1..2}

EcbKeys == {aesKey(KeyOf(5))}

EcbSrcLens == {b * BlockSize : b \in 0..MaxBlocks} \cup {BlockSize - 1, BlockSize + 1}

EcbSrcOffs == {0, BlockSize}

EcbDstOffs == {0, BlockSize \div 2, BlockSize, MaxBlocks * BlockSize}

EcbDstLens(sl) == {l \in {0, sl - 1, sl, sl + 1, sl + BlockSize} : l >= 0}

InitECB ==
  /\ SeqIdle
  /\ ukd = DefaultDeriver
  /\ ConcIdle
  /\ HistIdle
  /\ \E mode \in {"encrypt", "decrypt"}, key \in EcbKeys, m \in EcbMems,
        s0 \in EcbSrcOffs, sl \in EcbSrcLens, d0 \in EcbDstOffs :
       \E dl \in EcbDstLens(sl) :
         /\ s0 + sl <= EcbCap
         /\ d0 + dl <= EcbCap
         /\ ecb = [pc |-> "start", mode |-> mode, key |-> key, mem |-> m, mem0 |-> m,
                   d0 |-> d0, dl |-> dl, s0 |-> s0, sl |-> sl,
                   dst |-> [off |-> d0, len |-> dl], src |-> [off |-> s0, len |-> sl],
                   panic |-> ""]

\* the bytes m[off : off+n] of a memory m
Bytes(m, off, n) == SubSeq(m, off + 1, off + n)

\* the memory m after copying b to m[off : off+len(b)]
Store(m, off, b) ==
  [i \in 1..Len(m) |-> IF i > off /\ i <= off + Len(b) THEN b[i - off] ELSE m[i]]

\* crypto/aes: the first BlockSize bytes of dst and of src share memory but
\* do not start at the same byte
InexactOverlap(dst, src) ==
  /\ dst.off # src.off
  /\ dst.off < src.off + BlockSize
  /\ src.off < dst.off + BlockSize

\* a plausible slip: the length of dst is not checked
CryptBlocksCheck_NoDstCheck ==
  /\ ecb.pc = "start"
  /\ ecb' = IF ecb.src.len % BlockSize # 0
            THEN [ecb EXCEPT !.pc = "panic",
                             !.panic = "crypto/cipher: input not full blocks"]
            ELSE [ecb EXCEPT !.pc = "loop"]
  /\ UNCHANGED <<svars, ukd, hist, cvars>>

\* if len(src)%x.BlockSize() != 0 { panic }; if len(dst) < len(src) { panic }
CryptBlocksCheck ==
  /\ ecb.pc = "start"
  /\ ecb' = IF ecb.src.len % BlockSize # 0
            THEN [ecb EXCEPT !.pc = "panic",
                             !.panic = "crypto/cipher: input not full blocks"]
            ELSE IF ecb.dst.len < ecb.src.len
            THEN [ecb EXCEPT !.pc = "panic",
                             !.panic = "crypto/cipher: output smaller than input"]
            ELSE [ecb EXCEPT !.pc = "loop"]
  /\ UNCHANGED <<svars, ukd, hist, cvars>>

\* one iteration: x.b.Encrypt(dst, src[:bs]) or x.b.Decrypt(dst, src[:bs]),
\* which panics on a short dst or an inexact overlap and else writes the
\* block out to dst[:bs]; then src = src[bs:], dst = dst[bs:]
CryptBlock(out) ==
  /\ ecb' = IF ecb.dst.len < BlockSize
            THEN [ecb EXCEPT !.pc = "panic", !.panic = "crypto/aes: output not full block"]
            ELSE IF InexactOverlap(ecb.dst, ecb.src)
            THEN [ecb EXCEPT !.pc = "panic", !.panic = "crypto/aes: invalid buffer overlap"]
            ELSE [ecb EXCEPT
                    !.mem = Store(@, ecb.dst.off, out),
                    !.src = [off |-> @.off + BlockSize, len |-> @.len - BlockSize],
                    !.dst = [off |-> @.off + BlockSize, len |-> @.len - BlockSize]]
  /\ UNCHANGED <<svars, ukd, hist, cvars>>

\* ecbEncrypter.CryptBlocks: one iteration of its loop
EncrypterBlock ==
  /\ ecb.mode = "encrypt"
  /\ ecb.pc = "loop"
  /\ ecb.src.len > 0
  /\ CryptBlock(BlockEncrypt(ecb.key, Bytes(ecb.mem, ecb.src.off, BlockSize)))

\* ecbDecrypter.CryptBlocks: one iteration of its loop
DecrypterBlock ==
  /\ ecb.mode = "decrypt"
  /\ ecb.pc = "loop"
  /\ ecb.src.len > 0
  /\ CryptBlock(BlockDecrypt(ecb.key, Bytes(ecb.mem, ecb.src.off, BlockSize)))

\* for len(src) > 0 { ... } is over: CryptBlocks returns
CryptBlocksReturn ==
  /\ ecb.pc = "loop"
  /\ ecb.src.len = 0
  /\ ecb' = [ecb EXCEPT !.pc = "done"]
  /\ UNCHANGED <<svars, ukd, hist, cvars>>

NextECB ==
  \/ CryptBlocksCheck
  \/ EncrypterBlock
  \/ DecrypterBlock
  \/ CryptBlocksReturn

SpecECB == InitECB /\ [][NextECB]_vars

\* ------------------------------------------------------------ claims

\* C1: round trip. For every non-empty plaintext p and non-empty key k (shorter
\* than, equal to or longer than 16 bytes) Encrypt(p, k) succeeds, and
\* Decrypt(Encrypt(p, k), k) succeeds and returns exactly p.
C1_RoundTrip ==
  /\ (op = "Encrypt" /\ Len(arg.data) > 0 /\ Len(arg.key) > 0) => ret.err = NoErr
  /\ (op = "Decrypt" /\ origin.op = "Decrypt" /\ arg.key = origin.key)
       => ret = Ok(origin.p)

C1_Witness ==
  /\ op = "Decrypt" /\ origin.op = "Decrypt" /\ arg.key = origin.key
  /\ Len(arg.key) > keyLen
  /\ Len(origin.p) = 2 * BlockSize
  /\ Len(arg.data) = 3 * BlockSize
  /\ ret = Ok(origin.p)

\* C2: identity isolation. For every deriver, non-empty plaintext p and user
\* ids A, B with DeriveKey(A) # DeriveKey(B), DecryptFor(EncryptFor(p, A), B)
\* fails with InvalidPadding or returns a value other than p.
C2_IdentityIsolation ==
  (op = "DecryptForUser" /\ origin.op = "DecryptForUser"
     /\ DeriveUserKey(ukd, arg.id) # DeriveUserKey(ukd, origin.id))
    => \/ ret.err \in InvalidPadding
       \/ (ret.err = NoErr /\ ret.val # origin.p)

\* C3: Encrypt and Decrypt leave their arguments' memory alone: after the call
\* every byte of the buffer under the plaintext / ciphertext argument, the
\* bytes past its length within its capacity included, is what it was.
C3_ArgumentsUnchanged ==
  op \in {"Encrypt", "Decrypt"} => mem = arg.buf

\* C4: two concurrent Encrypt calls, their plaintexts views over one caller
\* buffer: no call writes a cell the other reads or writes, and each call
\* returns what it returns when run alone.
C4_NoInterference ==
  /\ \A g \in Goroutines, h \in Goroutines :
       g # h => wr[g] \cap (rd[h] \cup wr[h]) = {}
  /\ \A g \in Goroutines :
       pc[g] = "done" =>
         [val |-> loc[g].ciphertext, err |-> loc[g].err]
           = Encrypt(View(shared0, loc[g].n), loc[g].key)

\* C5: key folding equivalence. Encrypt(p, k) = Encrypt(p, fold_key(k)); a
\* 16-byte key folds to itself; under a 32-byte key h1 ++ h2 the ciphertext
\* is the one under the 16-byte key h1 XOR h2.
C5_KeyFolding ==
  (op = "Encrypt" /\ Len(arg.data) > 0 /\ Len(arg.key) > 0) =>
    /\ ret = Encrypt(arg.data, aesKey(arg.key))
    /\ Len(arg.key) = keyLen => aesKey(arg.key) = arg.key
    /\ Len(arg.key) = 2 * keyLen =>
         ret = Encrypt(arg.data,
                       [j \in 1..keyLen |-> Xor(arg.key[j], arg.key[j + keyLen])])

C5_Witness ==
  /\ op = "Encrypt" /\ Len(arg.data) > BlockSize /\ Len(arg.key) = 2 * keyLen
  /\ ret.err = NoErr
  /\ \E j \in 1..keyLen : aesKey(arg.key)[j] # arg.key[j]
  /\ ret = Encrypt(arg.data,
                   [j \in 1..keyLen |-> Xor(arg.key[j], arg.key[j + keyLen])])

\* C6: Encrypt fails with InvalidInput whenever the plaintext or the key is
\* empty (EncryptString likewise), and for no other input.
C6_EncryptInvalidInput ==
  op \in {"Encrypt", "EncryptString"} =>
    ((ret.err \in InvalidInput) <=> (Len(arg.data) = 0 \/ Len(arg.key) = 0))

C6_Witness ==
  /\ op = "EncryptString" /\ Len(arg.data) > 0 /\ Len(arg.key) = 0
  /\ ret.err = ErrKeyEmpty
  /\ ret.err \in InvalidInput

\* C7: Decrypt fails with InvalidInput whenever the ciphertext is empty, the
\* key is empty or the length is no positive multiple of 16; the checks come
\* before any block is decrypted: no InvalidPadding, no plaintext.
C7_DecryptInvalidInput ==
  (op = "Decrypt" /\ (Len(arg.data) = 0 \/ Len(arg.key) = 0
                      \/ Len(arg.data) % BlockSize # 0))
    => (ret.err \in InvalidInput /\ ret.val = <<>>)

C7_Witness ==
  /\ op = "Decrypt" /\ Len(arg.key) = 0 /\ origin.op = "Decrypt"
  /\ Len(arg.data) = 2 * BlockSize
  /\ ret = Fail(ErrKeyEmpty)

\* the hex alphabet, stated on its own: 0-9, a-f, A-F
IsHexDigit(c) == c \in (48..57) \cup (97..102) \cup (65..70)

ValidHex(h) == Len(h) % 2 = 0 /\ \A i \in 1..Len(h) : IsHexDigit(h[i])

\* C8: DecryptString fails with InvalidEncoding exactly when the text is not
\* valid hex (odd length or a character outside 0-9a-fA-F), whatever the key,
\* the empty key included; well-formed hex, the empty string included, never
\* gives InvalidEncoding.
C8_InvalidEncoding ==
  op = "DecryptString" => ((ret.err \in InvalidEncoding) <=> ~ValidHex(arg.data))

C8_Witness ==
  /\ op = "DecryptString" /\ Len(arg.key) = 0
  /\ Len(arg.data) % 2 = 1
  /\ ret = Fail(ErrHex)

\* C9: for non-empty p and k, len(Encrypt(p, k)) = 16 * (len(p) div 16 + 1):
\* a positive multiple of 16 greater than len(p); a plaintext of a whole
\* number of blocks gains one full block.
C9_CiphertextLength ==
  (op = "Encrypt" /\ Len(arg.data) > 0 /\ Len(arg.key) > 0) =>
    /\ Len(ret.val) = BlockSize * ((Len(arg.data) \div BlockSize) + 1)
    /\ Len(ret.val) > Len(arg.data)
    /\ Len(ret.val) % BlockSize = 0

C9_Witness ==
  /\ op = "Encrypt" /\ Len(arg.data) = 2 * BlockSize /\ Len(arg.key) > 0
  /\ Len(ret.val) = 3 * BlockSize

\* C10: PKCS#7 round trip. pad(data, 16) is data plus padLen bytes with
\* 1 <= padLen <= 16, a whole number of blocks; unpad(pad(data, 16)) succeeds
\* and returns exactly data, for the empty data and whole blocks too.
C10_PadUnpad ==
  /\ op = "pkcs7Pad" =>
       /\ Len(ret.val) - Len(arg.data) \in 1..BlockSize
       /\ Len(ret.val) % BlockSize = 0
       /\ SubSeq(ret.val, 1, Len(arg.data)) = arg.data
  /\ (op = "pkcs7Unpad" /\ origin.op = "pkcs7Unpad") => ret = Ok(origin.p)

C10_Witness ==
  /\ op = "pkcs7Unpad" /\ origin.op = "pkcs7Unpad"
  /\ Len(origin.p) = 0
  /\ Len(arg.data) = BlockSize
  /\ ret = Ok(<<>>)

\* the decimal text of a number, stated digit by digit
RECURSIVE NumDigits(_)
NumDigits(n) == IF n < 10 THEN 1 ELSE 1 + NumDigits(n \div 10)

RECURSIVE Pow10(_)
Pow10(e) == IF e = 0 THEN 1 ELSE 10 * Pow10(e - 1)

Decimal(n) ==
  [i \in 1..NumDigits(n) |-> 48 + ((n \div Pow10(NumDigits(n) - i)) % 10)]

\* the canonical text of a user id: digits, a leading '-' when negative, a
\* string as it is
IdText(id) ==
  IF id.type = "string" THEN id.s
  ELSE IF id.n < 0 THEN <<45>> \o Decimal(0 - id.n)
  ELSE Decimal(id.n)

\* C11: DeriveKey(id) = baseKey ++ text(id) ++ ":" ++ masterSalt; an unsigned
\* integer, a signed integer and a string with the same text yield the same
\* key, two ids with different texts yield different keys; base "BASE", salt
\* "SALT" and the unsigned 42 give "BASE42:SALT".
C11_DeriveKey ==
  op = "DeriveUserKey" =>
    /\ ret = Ok(ukd.baseKey \o IdText(arg.id) \o <<58>> \o ukd.masterSalt)
    /\ \A id2 \in UserIDs :
         (IdText(id2) = IdText(arg.id)) <=> (DeriveUserKey(ukd, id2) = ret.val)
    /\ (ukd = DefaultDeriver /\ arg.id = IntId("uint", 42))
         => ret.val = <<66, 65, 83, 69, 52, 50, 58, 83, 65, 76, 84>>

C11_Witness ==
  /\ op = "DeriveUserKey" /\ arg.id.type = "int" /\ arg.id.n < 0
  /\ Len(ukd.baseKey) > 0 /\ Len(ukd.masterSalt) > 0
  /\ ret.val[Len(ukd.baseKey) + 1] = 45
  /\ ret.err = NoErr

\* C12: EncryptFor(p, id) returns what EncryptText(p, DeriveKey(id)) returns
\* and DecryptFor(h, id) what DecryptText(h, DeriveKey(id)) returns, result or
\* error; DecryptFor(EncryptFor(p, id), id) = p for every non-empty p.
C12_UserOpsAreTextOps ==
  /\ op = "EncryptForUser" =>
       /\ ret = EncryptString(arg.data, DeriveUserKey(ukd, arg.id))
       /\ Len(arg.data) > 0 => ret.err = NoErr
  /\ op = "DecryptForUser" =>
       /\ ret = DecryptString(arg.data, DeriveUserKey(ukd, arg.id))
       /\ (origin.op = "DecryptForUser" /\ arg.id = origin.id)
            => ret = Ok(origin.p)

C12_Witness ==
  /\ op = "DecryptForUser" /\ origin.op = "DecryptForUser"
  /\ arg.id = origin.id /\ arg.id.type = "int"
  /\ Len(origin.p) = 17
  /\ ret = Ok(origin.p)

\* the last call is the first call made over again: same operation, same
\* argument values
SameAsFirst ==
  /\ op = hist.op
  /\ arg.data = hist.arg.data
  /\ arg.key = hist.arg.key
  /\ arg.id = hist.arg.id

\* C13: history independence. After any sequence of Encrypt, Decrypt,
\* EncryptText, DecryptText, DeriveKey, EncryptFor and DecryptFor calls,
\* failing or not, the deriver's baseKey and masterSalt are what they were at
\* construction, and a call with given argument values returns what the same
\* call returned when it was made first; Encrypt(p, k) twice gives one output.
C13_HistoryIndependent ==
  /\ ukd.baseKey = hist.ukd0.baseKey
  /\ ukd.masterSalt = hist.ukd0.masterSalt
  /\ SameAsFirst => ret = hist.ret

C13_Witness ==
  /\ hist.calls = MaxCalls
  /\ op = "Encrypt" /\ SameAsFirst
  /\ arg.buf # hist.arg.buf
  /\ ret.err = NoErr
  /\ ret = hist.ret

\* the value of a hex digit, either case
HexVal(c) ==
  IF c \in 48..57 THEN c - 48 ELSE IF c \in 97..102 THEN c - 87 ELSE c - 55

\* C14: for a non-empty string s and a non-empty key k, EncryptText(s, k) is
\* made of the characters 0-9 and a-f only, two per ciphertext byte and nothing
\* else, and DecryptText of it, as returned or in upper case, under k returns s.
C14_TextRoundTrip ==
  /\ (op = "EncryptString" /\ Len(arg.data) > 0 /\ Len(arg.key) > 0) =>
       LET c == Encrypt(arg.data, arg.key).val
       IN /\ ret.err = NoErr
          /\ \A i \in 1..Len(ret.val) : ret.val[i] \in (48..57) \cup (97..102)
          /\ Len(c) > 0
          /\ Len(ret.val) = 2 * Len(c)
          /\ \A i \in 1..Len(c) :
               16 * HexVal(ret.val[2 * i - 1]) + HexVal(ret.val[2 * i]) = c[i]
  /\ (op = "DecryptString" /\ origin.op = "DecryptString" /\ arg.key = origin.key)
       => ret = Ok(origin.p)

C14_Witness ==
  /\ op = "DecryptString" /\ origin.op = "DecryptString"
  /\ arg.key = origin.key
  /\ \E i \in 1..Len(arg.data) : arg.data[i] \in 65..70
  /\ Len(origin.p) = 13
  /\ ret = Ok(origin.p)

\* C15: totality without panics. For every plaintext or ciphertext and every
\* key, of any length, Encrypt and Decrypt return a result or an explicit
\* error, not both, never a panic of a slice expression out of range; the
\* processed key is 16 bytes, so the failure branch of aes.NewCipher is never
\* taken.
C15_NoPanic ==
  op \in {"Encrypt", "Decrypt"} =>
    /\ ret.err # ErrPanic
    /\ ret.err # ErrCipher
    /\ ret.err \in {NoErr} \cup InvalidInput \cup InvalidPadding
    /\ ret.err # NoErr => ret.val = <<>>
    /\ Len(aesKey(arg.key)) = 16
    /\ ~NewCipherFails(aesKey(arg.key))

C15_Witness ==
  /\ op = "Decrypt"
  /\ Len(arg.data) = MaxLen
  /\ Len(arg.key) = 35
  /\ ret = Fail(ErrCiphertextLength)

\* the XOR of key[i], key[i + 16], key[i + 32], ... (0 when there is none)
RECURSIVE XorFrom(_, _)
XorFrom(key, i) ==
  IF i > Len(key) THEN 0 ELSE Xor(key[i], XorFrom(key, i + 16))

FoldedKey(key) == [j \in 1..16 |-> XorFrom(key, j)]

\* C16: fold_key(key) is 16 bytes for every key, and its byte j is the XOR of
\* all key[i] with i mod 16 = j (zero when there is none): a 16-byte key is
\* returned unchanged, a shorter key is zero-padded on the right, the bytes of
\* a longer key from index 16 on are XOR-ed into position i mod 16, also when
\* the length is not a multiple of 16. Encrypt encrypts under that key.
C16_FoldKey ==
  op \in {"Encrypt", "Decrypt", "EncryptString", "DecryptString"} =>
    LET k == aesKey(arg.key)
    IN /\ Len(k) = 16
       /\ k = FoldedKey(arg.key)
       /\ Len(arg.key) = 16 => k = arg.key
       /\ Len(arg.key) < 16 =>
            k = arg.key \o [j \in 1..(16 - Len(arg.key)) |-> 0]
       /\ (op = "Encrypt" /\ ret.err = NoErr) =>
            SubSeq(ret.val, 1, 16)
              = BlockEncrypt(FoldedKey(arg.key),
                             SubSeq(pkcs7Pad(arg.data, 16), 1, 16))

C16_Witness ==
  /\ op = "Encrypt" /\ ret.err = NoErr
  /\ Len(arg.key) = 35
  /\ aesKey(arg.key)[3] = Xor(Xor(arg.key[3], arg.key[19]), arg.key[35])
  /\ aesKey(arg.key)[3] # Xor(arg.key[3], arg.key[19])
  /\ aesKey(arg.key)[4] = Xor(arg.key[4], arg.key[20])

\* data ends in a well-formed trailer: its last byte padLen is in 1..len(data)
\* and each of the last padLen bytes is padLen
TrailerOK(d) ==
  /\ Len(d) > 0
  /\ d[Len(d)] \in 1..Len(d)
  /\ \A i \in 1..d[Len(d)] : d[Len(d) + 1 - i] = d[Len(d)]

\* C17: unpad(data) fails with InvalidPadding when data is empty, when the
\* last byte padLen is 0, when padLen > len(data), or when one of the last
\* padLen bytes differs from padLen; in every other case it returns data less
\* exactly its last padLen bytes. Decrypt reports InvalidPadding exactly when
\* unpad rejects the block-decrypted buffer.
C17_Unpad ==
  /\ op = "pkcs7Unpad" =>
       IF TrailerOK(arg.data)
       THEN ret = Ok(SubSeq(arg.data, 1, Len(arg.data) - arg.data[Len(arg.data)]))
       ELSE /\ ret.err \in {ErrDataEmpty, ErrBadPadding}
            /\ WrapUnpad(ret.err) \in InvalidPadding
            /\ ret.val = <<>>
  /\ op = "Decrypt" =>
       IF Len(arg.data) = 0 \/ Len(arg.key) = 0 \/ Len(arg.data) % 16 # 0
       THEN ret.err \in InvalidInput
       ELSE LET plaintext == DecryptLoop(aesKey(arg.key), arg.data, 1, <<>>)
            IN /\ ret.err \in InvalidPadding <=> ~TrailerOK(plaintext)
               /\ ret.err \in InvalidPadding <=> pkcs7Unpad(plaintext).err # NoErr
               /\ ret.err \in InvalidPadding \/ ret.err = NoErr

C17_Witness ==
  /\ op = "pkcs7Unpad"
  /\ Len(arg.data) > 2
  /\ arg.data[Len(arg.data)] = 2
  /\ arg.data[Len(arg.data) - 1] # 2
  /\ ret = Fail(ErrBadPadding)

\* block i (from 1) of a byte string
BlockAt(t, i) == SubSeq(t, 16 * (i - 1) + 1, 16 * i)

\* plaintexts near p: the caller's buffer viewed at other lengths, and p with
\* its last byte changed
Neighbours(buf, p) ==
  {View(buf, n) : n \in {16, 17, 32, MaxLen}}
    \cup {[p EXCEPT ![Len(p)] = (@ + 1) % 256]}

\* C18: ECB block independence. Block i of Encrypt(p, k) depends only on k and
\* on block i of the padded plaintext: two plaintexts that agree on their
\* first 16*n bytes give ciphertexts that agree on their first 16*n bytes
\* under one key, and two equal blocks of one padded plaintext give two equal
\* ciphertext blocks.
C18_BlockIndependence ==
  (op = "Encrypt" /\ ret.err = NoErr) =>
    LET padded == pkcs7Pad(arg.data, 16)
        blocks == 1..(Len(padded) \div 16)
    IN /\ Len(ret.val) = Len(padded)
       /\ \A i \in blocks :
            BlockAt(ret.val, i) = BlockEncrypt(aesKey(arg.key), BlockAt(padded, i))
       /\ \A i \in blocks, j \in blocks :
            BlockAt(padded, i) = BlockAt(padded, j)
              => BlockAt(ret.val, i) = BlockAt(ret.val, j)
       /\ \A p2 \in Neighbours(arg.buf, arg.data), n \in 1..2 :
            (16 * n <= Len(arg.data) /\ 16 * n <= Len(p2)
               /\ View(p2, 16 * n) = View(arg.data, 16 * n))
              => View(Encrypt(p2, arg.key).val, 16 * n) = View(ret.val, 16 * n)

C18_Witness ==
  /\ op = "Encrypt" /\ ret.err = NoErr
  /\ Len(arg.data) = MaxLen
  /\ BlockAt(arg.data, 1) = BlockAt(arg.data, 2)
  /\ BlockAt(ret.val, 1) = BlockAt(ret.val, 2)
  /\ BlockAt(ret.val, 3) # BlockAt(ret.val, 2)
  /\ View(Encrypt(View(arg.buf, 32), arg.key).val, 32) = View(ret.val, 32)

\* C19: whenever Decrypt(c, k) succeeds the trailer it removed is 1 to 16
\* bytes long, so the plaintext p has len(c) - 16 <= len(p) <= len(c) - 1; a
\* decrypted buffer whose last byte is greater than 16 is rejected with
\* InvalidPadding.
C19_TrailerWithinBlock ==
  op = "Decrypt" =>
    /\ ret.err = NoErr =>
         /\ Len(arg.data) - 16 <= Len(ret.val)
         /\ Len(ret.val) <= Len(arg.data) - 1
    /\ (Len(arg.data) > 0 /\ Len(arg.key) > 0 /\ Len(arg.data) % 16 = 0) =>
         (DecryptLoop(aesKey(arg.key), arg.data, 1, <<>>)[Len(arg.data)] > 16
            => ret.err \in InvalidPadding)

\* C20: no partial output on failure. Whenever Encrypt, Decrypt, EncryptText,
\* DecryptText, EncryptFor or DecryptFor returns an error the result that comes
\* with it is empty (nil bytes, the empty string); a Decrypt that fails the
\* padding validation returns none of the block-decrypted bytes; a successful
\* call returns no error.
C20_NoPartialOutput ==
  op \in {"Encrypt", "Decrypt", "EncryptString", "DecryptString",
          "EncryptForUser", "DecryptForUser"} =>
    /\ ret.err # NoErr => ret.val = <<>>
    /\ ret.val # <<>> => ret.err = NoErr
    /\ (op = "Decrypt" /\ ret.err \in InvalidPadding) =>
         \A i \in 1..Len(ret.val) :
           ret.val[i] # DecryptLoop(aesKey(arg.key), arg.data, 1, <<>>)[i]

C20_Witness ==
  /\ op = "Decrypt"
  /\ ret.err \in InvalidPadding
  /\ Len(arg.data) = 16
  /\ Len(DecryptLoop(aesKey(arg.key), arg.data, 1, <<>>)) = 16
  /\ ret.val = <<>>

\* the call fails one of the two checks of CryptBlocks
EcbRejected == ecb.sl % 16 # 0 \/ ecb.dl < ecb.sl

\* the block operation of the mode in use
EcbCrypt(b) ==
  IF ecb.mode = "encrypt" THEN BlockEncrypt(ecb.key, b) ELSE BlockDecrypt(ecb.key, b)

\* C21: CryptBlocks(dst, src) of the ECB block modes panics, before it writes
\* any byte of dst, when len(src) is not a multiple of the block size or
\* len(dst) < len(src); otherwise it terminates without a panic, block i of dst
\* is the encryption (resp. decryption) of block i of src for every block of
\* src, and the bytes of dst past len(src) and all of src are as they were.
C21_CryptBlocks ==
  /\ (EcbRejected /\ ecb.pc \notin {"idle", "start"}) =>
       /\ ecb.pc = "panic"
       /\ ecb.mem = ecb.mem0
  /\ (~EcbRejected /\ ecb.pc # "idle") => ecb.pc # "panic"
  /\ ecb.pc = "done" =>
       /\ \A i \in 1..(ecb.sl \div 16) :
            Bytes(ecb.mem, ecb.d0 + 16 * (i - 1), 16)
              = EcbCrypt(Bytes(ecb.mem0, ecb.s0 + 16 * (i - 1), 16))
       /\ \A j \in (ecb.sl + 1)..ecb.dl : ecb.mem[ecb.d0 + j] = ecb.mem0[ecb.d0 + j]
       /\ Bytes(ecb.mem, ecb.s0, ecb.sl) = Bytes(ecb.mem0, ecb.s0, ecb.sl)

\* dst and src share no memory
EcbApart == ecb.d0 + ecb.dl <= ecb.s0 \/ ecb.s0 + ecb.sl <= ecb.d0

\* dst and src start at the same byte: the call works in place
EcbInPlace == ecb.d0 = ecb.s0

\* C21 as amended: CryptBlocks(dst, src) panics, before it writes any byte of
\* dst, when len(src) is not a multiple of the block size or len(dst) <
\* len(src), and it never changes the bytes of dst past len(src). Otherwise,
\* when dst and src share no memory or start at the same byte, it returns
\* without a panic and block i of dst is the encryption (resp. decryption) of
\* block i of src as it was at the call, for every block of src; src is left
\* unchanged when it shares no memory with dst.
C21_CryptBlocksAmended ==
  /\ (EcbRejected /\ ecb.pc \notin {"idle", "start"}) =>
       /\ ecb.pc = "panic"
       /\ ecb.mem = ecb.mem0
  /\ \A j \in (ecb.sl + 1)..ecb.dl : ecb.mem[ecb.d0 + j] = ecb.mem0[ecb.d0 + j]
  /\ (~EcbRejected /\ ecb.pc # "idle" /\ (EcbApart \/ EcbInPlace)) =>
       /\ ecb.pc # "panic"
       /\ ecb.pc = "done" =>
            \A i \in 1..(ecb.sl \div 16) :
              Bytes(ecb.mem, ecb.d0 + 16 * (i - 1), 16)
                = EcbCrypt(Bytes(ecb.mem0, ecb.s0 + 16 * (i - 1), 16))
  /\ (ecb.pc = "done" /\ EcbApart) =>
       Bytes(ecb.mem, ecb.s0, ecb.sl) = Bytes(ecb.mem0, ecb.s0, ecb.sl)

C21_Witness ==
  /\ ecb.pc = "done"
  /\ ecb.mode = "decrypt"
  /\ EcbApart
  /\ ecb.sl = MaxBlocks * 16
  /\ ecb.dl = ecb.sl + 1
  /\ Bytes(ecb.mem, ecb.d0, 16) = BlockDecrypt(ecb.key, Bytes(ecb.mem0, ecb.s0, 16))
  /\ ecb.mem # ecb.mem0

====
